---- MODULE Spec2Model ----
(***************************************************************************)
(* A model of the throttle package: a Runner paces calls of a work unit    *)
(* with a time.Ticker of period qos(rate, res).  The variants of Do and    *)
(* DoFor that are modelled:                                                *)
(*   - src/throttle.go: concurrent dispatch, context, no error result      *)
(*     (Spec; SpecLive with fairness; SpecNew with the constructor);       *)
(*   - src/unnamed/part_000: DoFor bounded by a count (SpecCnt);           *)
(*   - src/unnamed/part_001 lines 1-85: sequential dispatch, error result  *)
(*     (SpecSeq);                                                          *)
(*   - src/unnamed/part_001 lines 87-202: concurrent dispatch, context and *)
(*     an unbuffered errors channel (SpecErr).                             *)
(* These leave every timing open: the ticker and the deadlines fire at any *)
(* moment.  SpecTimed and SpecShared have a discrete clock on which the    *)
(* timers fire exactly on time, and goroutines and work units that take no *)
(* time.                                                                   *)
(***************************************************************************)
EXTENDS Integers, Sequences, FiniteSets, TLC

\* ------------------------------------------------------------------ bounds
MaxRate == 2
MaxRes == 3
MaxTime == 5
MaxCalls == 2
MaxTotal == 2
MaxDur == 2
MaxLaunch == 3

Times == 0..MaxTime

\* ---------------------------------------------------------- pure functions
\* Go's integer division truncates toward zero.
GoDiv(a, b) ==
    IF (a >= 0) = (b > 0) THEN (IF a >= 0 THEN a \div b ELSE (-a) \div (-b))
    ELSE -((IF a >= 0 THEN a ELSE -a) \div (IF b > 0 THEN b ELSE -b))

\* A qos that rounds up.
qosCeil(r, s) == GoDiv(s + r - 1, r)

\* func qos(rate, res): res.Nanoseconds() / rate, in nanoseconds.
qos(r, s) == GoDiv(s, r)

VARIABLES
    rate,       \* Runner.rate
    res,        \* Runner.res, in time units
    c,          \* Runner.c: number of ticks buffered in the ticker's channel (capacity 1)
    now,        \* the clock
    tickAt,     \* the time the ticker fires next
    launchLog,  \* launchLog[t]: how many work units were launched at time t
                \* (the clock stands at 0 where the timing is left open)
    ncalls,     \* how many calls of Do or DoFor the caller has begun
    call        \* the state of the latest call

vars == <<rate, res, c, now, tickAt, launchLog, ncalls, call>>

\* The errors a work unit may return; "nil" is no error.
Errors == {"e1", "e2"}

\* The state of a call that has not begun.  launched counts the work units
\* launched (or, in the sequential variant, invoked), running those that have
\* not returned; outs lists what the invocations of the sequential variant
\* returned; sending[e] counts the work units blocked in errors <- e; errs
\* holds the errors the work units have returned.
IdleCall ==
    [pc |-> "idle", kind |-> "none", total |-> 0, d |-> 0, ctx |-> "live",
     launched |-> 0, wg |-> 0, running |-> 0, joiner |-> "none", via |-> "none",
     endAt |-> 0, endFired |-> FALSE,
     outs |-> <<>>, sending |-> [e \in Errors |-> 0], errs |-> {}, result |-> "none"]

\* if rate > 0: the Runner has a ticker and its calls wait for the ticks.
Throttled == rate > 0

\* New(rate, res): stores rate and res, and for rate > 0 starts the ticker,
\* whose first tick is due one period later.  New returns a Runner only when
\* the period is positive: time.NewTicker panics on any other.
Init ==
    /\ rate \in -1..MaxRate
    /\ res \in 1..MaxRes
    /\ rate > 0 => qos(rate, res) > 0
    /\ c = 0
    /\ now = 0
    /\ tickAt = IF rate > 0 THEN qos(rate, res) ELSE 0
    /\ launchLog = [t \in Times |-> 0]
    /\ ncalls = 0
    /\ call = IdleCall

\* Whether the call is running (begun and not returned).
Active == call.pc \notin {"idle", "done"}

\* The caller makes its calls one after the other.  A call shares nothing
\* but the ticker with the calls before it: what an earlier call left behind
\* (work units still running, its joiner) is dropped when the next begins.
MayBegin ==
    /\ ncalls < MaxCalls
    /\ ncalls' = ncalls + 1
    /\ call.pc \in {"idle", "done"}

\* A receive that leaves the tick in the channel for the next receiver.
TakeTickKeeps == c' = c

\* <-r.c, guarded by rate > 0: blocks until a tick is buffered and takes it.
TickReady == Throttled => c = 1
TakeTick == c' = IF Throttled THEN 0 ELSE c

\* go func() { defer wg.Done(); f() }() at the current instant.
Launch ==
    /\ launchLog' = [launchLog EXCEPT ![now] = @ + 1]
    /\ UNCHANGED <<rate, res, now, tickAt, ncalls>>

\* The ticker fires, at a time the model leaves open.  A tick finding the
\* channel full is dropped.
TickFire ==
    /\ Throttled
    /\ c = 0
    /\ c' = 1
    /\ UNCHANGED <<rate, res, now, tickAt, launchLog, ncalls, call>>

\* The deadline of the call (end := time.After(d)) fires, at a time the model
\* leaves open.
EndFire ==
    /\ call.kind = "DoFor"
    /\ Active
    /\ ~call.endFired
    /\ call' = [call EXCEPT !.endFired = TRUE]
    /\ UNCHANGED <<rate, res, c, now, tickAt, launchLog, ncalls>>

\* The caller cancels the context of a running call.
Cancel ==
    /\ Active
    /\ call.ctx = "live"
    /\ call' = [call EXCEPT !.ctx = "mid"]
    /\ UNCHANGED <<rate, res, c, now, tickAt, launchLog, ncalls>>

\* A goroutine without its deferred wg.Done().
TaskDoneNoWgDone ==
    /\ call.running > 0
    /\ call' = [call EXCEPT !.running = @ - 1]
    /\ UNCHANGED <<rate, res, c, now, tickAt, launchLog, ncalls>>

\* A launched work unit returns: f() ends and the deferred wg.Done() runs.
TaskDone ==
    /\ call.running > 0
    /\ call' = [call EXCEPT !.running = @ - 1, !.wg = @ - 1]
    /\ UNCHANGED <<rate, res, c, now, tickAt, launchLog, ncalls>>

\* ------------------------------------------------- src/throttle.go: Do
\* Do(ctx, total, f) begins: wg.Add(total).
DoCall(tot, cx) ==
    /\ MayBegin
    /\ call' =
         [IdleCall EXCEPT !.pc = "do_loop", !.kind = "Do", !.total = tot,
                          !.ctx = cx, !.wg = tot]
    /\ UNCHANGED <<rate, res, c, now, tickAt, launchLog>>

\* One turn of the loop: wait for a tick when throttled, then launch f.
DoLaunch ==
    /\ call.pc = "do_loop"
    /\ call.launched < call.total
    /\ TickReady
    /\ TakeTick
    /\ call' = [call EXCEPT !.launched = @ + 1,
                              !.running = @ + 1]
    /\ Launch

\* The loop is over: the joiner goroutine (wg.Wait, then finished <- struct{}{})
\* is started and Do enters its select.
DoJoin ==
    /\ call.pc = "do_loop"
    /\ call.launched = call.total
    /\ call' = [call EXCEPT !.pc = "do_select", !.joiner = "waiting"]
    /\ UNCHANGED <<rate, res, c, now, tickAt, launchLog, ncalls>>

\* A joiner that does not wait for the work units.
JoinerNoWait ==
    /\ call.joiner = "waiting"
    /\ call' = [call EXCEPT !.joiner = "sending"]
    /\ UNCHANGED <<rate, res, c, now, tickAt, launchLog, ncalls>>

\* The joiner's wg.Wait() returns; it now blocks sending on finished.
JoinerWait ==
    /\ call.joiner = "waiting"
    /\ call.wg = 0
    /\ call' = [call EXCEPT !.joiner = "sending"]
    /\ UNCHANGED <<rate, res, c, now, tickAt, launchLog, ncalls>>

\* case <-finished: return
DoFinished ==
    /\ call.pc = "do_select"
    /\ call.joiner = "sending"
    /\ call' = [call EXCEPT !.pc = "done", !.via = "finished",
                              !.joiner = "exited"]
    /\ UNCHANGED <<rate, res, c, now, tickAt, launchLog, ncalls>>

\* case <-ctx.Done(): return
DoCtxDone ==
    /\ call.pc = "do_select"
    /\ call.ctx # "live"
    /\ call' = [call EXCEPT !.pc = "done", !.via = "ctx"]
    /\ UNCHANGED <<rate, res, c, now, tickAt, launchLog, ncalls>>

\* ---------------------------------------------- src/throttle.go: DoFor
\* A DoFor without the test of d == 0: time.After(0) is armed like any other.
DoForCallNoZeroCheck(dur, cx) ==
    /\ MayBegin
    /\ call' = [IdleCall EXCEPT !.pc = "dofor_select", !.kind = "DoFor", !.d = dur,
                                !.ctx = cx, !.endAt = now + dur]
    /\ UNCHANGED <<rate, res, c, now, tickAt, launchLog>>

\* DoFor(ctx, d, f) begins: returns at once for d == 0, else arms end := time.After(d).
DoForCall(dur, cx) ==
    /\ MayBegin
    /\ call' =
         IF dur = 0
           THEN [IdleCall EXCEPT !.pc = "done", !.kind = "DoFor", !.ctx = cx,
                                 !.via = "zero"]
           ELSE [IdleCall EXCEPT !.pc = "dofor_select", !.kind = "DoFor", !.d = dur,
                                 !.ctx = cx, !.endAt = now + dur]
    /\ UNCHANGED <<rate, res, c, now, tickAt, launchLog>>

\* case <-ctx.Done(): wg.Wait() ...
DoForCtxDone ==
    /\ call.pc = "dofor_select"
    /\ call.ctx # "live"
    /\ call' = [call EXCEPT !.pc = "dofor_wait", !.via = "ctx"]
    /\ UNCHANGED <<rate, res, c, now, tickAt, launchLog, ncalls>>

\* case <-end: wg.Wait() ...
DoForEnd ==
    /\ call.pc = "dofor_select"
    /\ call.endFired
    /\ call' = [call EXCEPT !.pc = "dofor_wait", !.via = "deadline"]
    /\ UNCHANGED <<rate, res, c, now, tickAt, launchLog, ncalls>>

\* default: taken only when no other case of the select is ready.
DoForDefault ==
    /\ call.pc = "dofor_select"
    /\ call.ctx = "live"
    /\ ~call.endFired
    /\ call.launched < MaxLaunch
    /\ call' = [call EXCEPT !.pc = "dofor_tick"]
    /\ UNCHANGED <<rate, res, c, now, tickAt, launchLog, ncalls>>

\* The body of default: wait for a tick when throttled, wg.Add(1), launch f.
DoForLaunch ==
    /\ call.pc = "dofor_tick"
    /\ TickReady
    /\ TakeTick
    /\ call' = [call EXCEPT !.pc = "dofor_select", !.launched = @ + 1,
                              !.wg = @ + 1, !.running = @ + 1]
    /\ Launch

\* A DoFor that returns without wg.Wait().
DoForReturnNoWait ==
    /\ call.pc = "dofor_wait"
    /\ call' = [call EXCEPT !.pc = "done"]
    /\ UNCHANGED <<rate, res, c, now, tickAt, launchLog, ncalls>>

\* ... wg.Wait() returns; return
DoForReturn ==
    /\ call.pc = "dofor_wait"
    /\ call.wg = 0
    /\ call' = [call EXCEPT !.pc = "done"]
    /\ UNCHANGED <<rate, res, c, now, tickAt, launchLog, ncalls>>

\* The steps of the goroutines of src/throttle.go that do not read the
\* context: the calls' own, the joiners' and the work units'.
GoSteps ==
    \/ TaskDone
    \/ DoLaunch
    \/ DoJoin
    \/ JoinerWait
    \/ DoFinished
    \/ DoForEnd
    \/ DoForDefault
    \/ DoForLaunch
    \/ DoForReturn

\* Timers fire at any time, and the caller may cancel: every timing of the
\* ticker, of the deadlines and of the goroutines.
Next ==
    \/ TickFire
    \/ EndFire
    \/ Cancel
    \/ DoCtxDone
    \/ DoForCtxDone
    \/ \E tot \in 0..MaxTotal : \E cx \in {"live", "pre"} : DoCall(tot, cx)
    \/ \E dur \in 0..MaxDur : \E cx \in {"live", "pre"} : DoForCall(dur, cx)
    \/ GoSteps

Spec == Init /\ [][Next]_vars

\* The steps that do not depend on the caller: the timers fire, and the
\* goroutines, work units included, take their steps.
Progress ==
    \/ TickFire
    \/ EndFire
    \/ DoCtxDone
    \/ DoForCtxDone
    \/ GoSteps

\* Spec with a ticker that keeps firing, deadlines that fire, work units that
\* return and goroutines that are scheduled: no step of Progress stays
\* possible forever without one being taken.
SpecLive == Spec /\ WF_vars(Progress)

\* The clock advances by one unit, once every goroutine is blocked or has
\* returned; the ticker and the deadlines that are due fire.  A tick finding
\* the channel full is dropped.
Advance ==
    /\ now < MaxTime
    /\ ~ENABLED GoSteps
    /\ now' = now + 1
    /\ IF Throttled /\ now' = tickAt
         THEN c' = 1 /\ tickAt' = tickAt + qos(rate, res)
         ELSE UNCHANGED <<c, tickAt>>
    /\ call' = [call EXCEPT
         !.endFired = @ \/ (call.kind = "DoFor" /\ Active /\ now' >= call.endAt)]
    /\ UNCHANGED <<rate, res, launchLog, ncalls>>

\* A throttled Runner on the clock, whose caller never cancels.
InitTimed == Init /\ Throttled

NextTimed ==
    \/ Advance
    \/ \E tot \in 0..MaxTotal : DoCall(tot, "live")
    \/ \E dur \in 0..MaxDur : DoForCall(dur, "live")
    \/ GoSteps

SpecTimed == InitTimed /\ [][NextTimed]_vars

\* Another call of Do or DoFor, running concurrently on the same Runner,
\* takes one turn of its loop: it waits for a tick and launches its f.  The
\* calls share nothing but r.c.
OtherLaunch ==
    /\ TickReady
    /\ TakeTick
    /\ Launch
    /\ UNCHANGED call

\* The Runner on the clock, shared by the caller's calls and concurrent ones.
NextShared ==
    \/ NextTimed
    \/ OtherLaunch

SpecShared == InitTimed /\ [][NextShared]_vars

\* ------------------------- src/unnamed/part_001 lines 34-45: sequential Do
\* Do(total, f) begins.
SeqDoCall(tot) ==
    /\ MayBegin
    /\ call' =
         [IdleCall EXCEPT !.pc = "seq_loop", !.kind = "SeqDo", !.total = tot]
    /\ UNCHANGED <<rate, res, c, now, tickAt, launchLog>>

\* A loop that remembers the error and goes on to the next invocation.
SeqDoInvokeGoesOn(out) ==
    /\ call.pc = "seq_loop"
    /\ call.launched < call.total
    /\ TickReady
    /\ TakeTick
    /\ call' = [call EXCEPT
         !.launched = @ + 1,
         !.outs = Append(@, out),
         !.result = IF out = "nil" THEN @ ELSE out]
    /\ UNCHANGED <<rate, res, now, tickAt, launchLog, ncalls>>

\* One turn of the loop: wait for a tick when throttled, call f, and return
\* its error if it has one.
SeqDoInvoke(out) ==
    /\ call.pc = "seq_loop"
    /\ call.launched < call.total
    /\ TickReady
    /\ TakeTick
    /\ call' = [call EXCEPT
         !.launched = @ + 1,
         !.outs = Append(@, out),
         !.pc = IF out = "nil" THEN @ ELSE "done",
         !.result = IF out = "nil" THEN @ ELSE out]
    /\ UNCHANGED <<rate, res, now, tickAt, launchLog, ncalls>>

\* The loop is over: return nil.
SeqDoReturn ==
    /\ call.pc = "seq_loop"
    /\ call.launched = call.total
    /\ call' = [call EXCEPT !.pc = "done",
                              !.result = IF @ = "none" THEN "nil" ELSE @]
    /\ UNCHANGED <<rate, res, c, now, tickAt, launchLog, ncalls>>

NextSeq ==
    \/ TickFire
    \/ \E tot \in 0..MaxTotal : SeqDoCall(tot)
    \/ \E out \in Errors \cup {"nil"} : SeqDoInvoke(out)
    \/ SeqDoReturn

SpecSeq == Init /\ [][NextSeq]_vars

\* --------- src/unnamed/part_001 lines 125-160: concurrent Do with errors
\* f() returns nil in a launched goroutine, and the deferred wg.Done() runs.
ErrTaskNil ==
    /\ call.running > 0
    /\ call' = [call EXCEPT !.running = @ - 1, !.wg = @ - 1]
    /\ UNCHANGED <<rate, res, c, now, tickAt, launchLog, ncalls>>

\* A goroutine that drops the error of f() instead of sending it.
ErrTaskFailDropped(e) ==
    /\ call.running > 0
    /\ call' = [call EXCEPT !.running = @ - 1, !.wg = @ - 1,
                              !.errs = @ \cup {e}]
    /\ UNCHANGED <<rate, res, c, now, tickAt, launchLog, ncalls>>

\* f() returns the error e: the goroutine blocks in errors <- err (the channel
\* is unbuffered), its wg.Done() still to come.
ErrTaskFail(e) ==
    /\ call.running > 0
    /\ call' = [call EXCEPT !.running = @ - 1,
                              !.sending = [@ EXCEPT ![e] = @ + 1],
                              !.errs = @ \cup {e}]
    /\ UNCHANGED <<rate, res, c, now, tickAt, launchLog, ncalls>>

\* Do(ctx, total, f) begins: wg.Add(total), errors := make(chan error).
ErrDoCall(tot, cx) ==
    /\ MayBegin
    /\ call' =
         [IdleCall EXCEPT !.pc = "errdo_loop", !.kind = "ErrDo", !.total = tot,
                          !.ctx = cx, !.wg = tot]
    /\ UNCHANGED <<rate, res, c, now, tickAt, launchLog>>

\* One turn of the loop: wait for a tick when throttled, then launch f.
ErrDoLaunch ==
    /\ call.pc = "errdo_loop"
    /\ call.launched < call.total
    /\ TickReady
    /\ TakeTick
    /\ call' = [call EXCEPT !.launched = @ + 1, !.running = @ + 1]
    /\ Launch

\* The loop is over: the joiner goroutine is started and Do enters its select.
ErrDoJoin ==
    /\ call.pc = "errdo_loop"
    /\ call.launched = call.total
    /\ call' = [call EXCEPT !.pc = "errdo_select", !.joiner = "waiting"]
    /\ UNCHANGED <<rate, res, c, now, tickAt, launchLog, ncalls>>

\* The joiner's wg.Wait() returns; it now blocks sending on finished.
ErrJoinerWait ==
    /\ call.joiner = "waiting"
    /\ call.wg = 0
    /\ call' = [call EXCEPT !.joiner = "sending"]
    /\ UNCHANGED <<rate, res, c, now, tickAt, launchLog, ncalls>>

\* case <-finished: return nil
ErrDoFinished ==
    /\ call.pc = "errdo_select"
    /\ call.joiner = "sending"
    /\ call' = [call EXCEPT !.pc = "done", !.via = "finished",
                              !.joiner = "exited", !.result = "nil"]
    /\ UNCHANGED <<rate, res, c, now, tickAt, launchLog, ncalls>>

\* case <-ctx.Done(): return nil
ErrDoCtxDone ==
    /\ call.pc = "errdo_select"
    /\ call.ctx # "live"
    /\ call' = [call EXCEPT !.pc = "done", !.via = "ctx", !.result = "nil"]
    /\ UNCHANGED <<rate, res, c, now, tickAt, launchLog, ncalls>>

\* case err := <-errors: return err.  The sender goes on to its wg.Done().
ErrDoRecv(e) ==
    /\ call.pc = "errdo_select"
    /\ call.sending[e] > 0
    /\ call' = [call EXCEPT !.pc = "done", !.via = "error", !.result = e,
                              !.sending = [@ EXCEPT ![e] = @ - 1],
                              !.wg = @ - 1]
    /\ UNCHANGED <<rate, res, c, now, tickAt, launchLog, ncalls>>

\* ------ src/unnamed/part_001 lines 165-197: concurrent DoFor with errors
\* DoFor(ctx, d, f) begins: returns nil at once for d == 0, else arms
\* end := time.After(d) and makes the errors channel.
ErrDoForCall(dur, cx) ==
    /\ MayBegin
    /\ call' =
         IF dur = 0
           THEN [IdleCall EXCEPT !.pc = "done", !.kind = "ErrDoFor", !.ctx = cx,
                                 !.via = "zero", !.result = "nil"]
           ELSE [IdleCall EXCEPT !.pc = "errdofor_select", !.kind = "ErrDoFor",
                                 !.d = dur, !.ctx = cx, !.endAt = now + dur]
    /\ UNCHANGED <<rate, res, c, now, tickAt, launchLog>>

\* case <-ctx.Done(): wg.Wait() ...
ErrDoForCtxDone ==
    /\ call.pc = "errdofor_select"
    /\ call.ctx # "live"
    /\ call' = [call EXCEPT !.pc = "errdofor_wait", !.via = "ctx"]
    /\ UNCHANGED <<rate, res, c, now, tickAt, launchLog, ncalls>>

\* case <-end: wg.Wait() ...
ErrDoForEnd ==
    /\ call.pc = "errdofor_select"
    /\ call.endFired
    /\ call' = [call EXCEPT !.pc = "errdofor_wait", !.via = "deadline"]
    /\ UNCHANGED <<rate, res, c, now, tickAt, launchLog, ncalls>>

\* case err := <-errors: return err.  The sender goes on to its wg.Done().
ErrDoForRecv(e) ==
    /\ call.pc = "errdofor_select"
    /\ call.sending[e] > 0
    /\ call' = [call EXCEPT !.pc = "done", !.via = "error", !.result = e,
                              !.sending = [@ EXCEPT ![e] = @ - 1],
                              !.wg = @ - 1]
    /\ UNCHANGED <<rate, res, c, now, tickAt, launchLog, ncalls>>

\* default: taken only when no other case of the select is ready.
ErrDoForDefault ==
    /\ call.pc = "errdofor_select"
    /\ call.ctx = "live"
    /\ ~call.endFired
    /\ \A e \in Errors : call.sending[e] = 0
    /\ call.launched < MaxLaunch
    /\ call' = [call EXCEPT !.pc = "errdofor_tick"]
    /\ UNCHANGED <<rate, res, c, now, tickAt, launchLog, ncalls>>

\* The body of default: wait for a tick when throttled, wg.Add(1), launch f.
ErrDoForLaunch ==
    /\ call.pc = "errdofor_tick"
    /\ TickReady
    /\ TakeTick
    /\ call' = [call EXCEPT !.pc = "errdofor_select", !.launched = @ + 1,
                              !.wg = @ + 1, !.running = @ + 1]
    /\ Launch

\* ... wg.Wait() returns; return nil
ErrDoForReturn ==
    /\ call.pc = "errdofor_wait"
    /\ call.wg = 0
    /\ call' = [call EXCEPT !.pc = "done", !.result = "nil"]
    /\ UNCHANGED <<rate, res, c, now, tickAt, launchLog, ncalls>>

\* The deadline of a DoFor with errors fires, at a time the model leaves open.
ErrEndFire ==
    /\ call.kind = "ErrDoFor"
    /\ Active
    /\ ~call.endFired
    /\ call' = [call EXCEPT !.endFired = TRUE]
    /\ UNCHANGED <<rate, res, c, now, tickAt, launchLog, ncalls>>

\* The steps of the timers and of the goroutines of the variant with errors.
ErrProgress ==
    \/ TickFire
    \/ ErrEndFire
    \/ ErrTaskNil
    \/ \E e \in Errors : ErrTaskFail(e)
    \/ ErrDoLaunch
    \/ ErrDoJoin
    \/ ErrJoinerWait
    \/ ErrDoFinished
    \/ ErrDoCtxDone
    \/ \E e \in Errors : ErrDoRecv(e)
    \/ ErrDoForCtxDone
    \/ ErrDoForEnd
    \/ \E e \in Errors : ErrDoForRecv(e)
    \/ ErrDoForDefault
    \/ ErrDoForLaunch
    \/ ErrDoForReturn

\* The caller begins calls and may cancel their contexts.
NextErr ==
    \/ Cancel
    \/ \E tot \in 0..MaxTotal : \E cx \in {"live", "pre"} : ErrDoCall(tot, cx)
    \/ \E dur \in 0..MaxDur : \E cx \in {"live", "pre"} : ErrDoForCall(dur, cx)
    \/ ErrProgress

SpecErr == Init /\ [][NextErr]_vars

\* ------------- src/unnamed/part_000 lines 55-92: the count-bounded DoFor
\* A total that multiplies before it divides.
totalMulFirst(r, s, dur) == GoDiv(dur * r, s)

\* func total(rate, res, d): int64(d/res) * rate.
total(r, s, dur) == GoDiv(dur, s) * r

\* DoFor(d, f) begins: returns at once for d == 0, else computes
\* total := total(r.rate, r.res, d); current, the count of the turns of the
\* loop, is the field launched.
CntDoForCall(dur) ==
    /\ MayBegin
    /\ call' =
         IF dur = 0
           THEN [IdleCall EXCEPT !.pc = "done", !.kind = "CntDoFor", !.via = "zero"]
           ELSE [IdleCall EXCEPT !.pc = "cnt_loop", !.kind = "CntDoFor", !.d = dur,
                                 !.total = total(rate, res, dur)]
    /\ UNCHANGED <<rate, res, c, now, tickAt, launchLog>>

\* default, current # total: current++, wait for a tick when throttled,
\* wg.Add(1), launch f.  (A negative total is never reached: the model stops
\* such a call at MaxLaunch.)
CntDoForLaunch ==
    /\ call.pc = "cnt_loop"
    /\ call.launched # call.total
    /\ call.total < 0 => call.launched < MaxLaunch
    /\ TickReady
    /\ TakeTick
    /\ call' = [call EXCEPT !.launched = @ + 1, !.wg = @ + 1, !.running = @ + 1]
    /\ Launch

\* default, current == total: wg.Wait() ...
CntDoForWait ==
    /\ call.pc = "cnt_loop"
    /\ call.launched = call.total
    /\ call' = [call EXCEPT !.pc = "cnt_wait", !.via = "count"]
    /\ UNCHANGED <<rate, res, c, now, tickAt, launchLog, ncalls>>

\* ... wg.Wait() returns; return
CntDoForReturn ==
    /\ call.pc = "cnt_wait"
    /\ call.wg = 0
    /\ call' = [call EXCEPT !.pc = "done"]
    /\ UNCHANGED <<rate, res, c, now, tickAt, launchLog, ncalls>>

NextCnt ==
    \/ TickFire
    \/ TaskDone
    \/ \E dur \in 0..MaxDur : CntDoForCall(dur)
    \/ CntDoForLaunch
    \/ CntDoForWait
    \/ CntDoForReturn

SpecCnt == Init /\ [][NextCnt]_vars

\* ------------------------------------- src/throttle.go lines 20-31: New
\* Before New has run: rate and res hold its arguments, of either sign.
InitNew ==
    /\ rate \in -1..MaxRate
    /\ res \in -MaxRes..MaxRes
    /\ c = 0
    /\ now = 0
    /\ tickAt = 0
    /\ launchLog = [t \in Times |-> 0]
    /\ ncalls = 0
    /\ call = [IdleCall EXCEPT !.pc = "new"]

\* A New whose ticker takes any period.
NewRunnerAnyPeriod ==
    /\ call.pc = "new"
    /\ tickAt' = IF rate > 0 THEN qos(rate, res) ELSE tickAt
    /\ call' = [call EXCEPT !.pc = "idle"]
    /\ UNCHANGED <<rate, res, c, now, launchLog, ncalls>>

\* New(rate, res): for rate > 0 hands qos(rate, res) to time.NewTicker, which
\* panics ("non-positive interval for NewTicker") unless the period is
\* positive; else returns the Runner.  tickAt keeps the period handed over:
\* the first tick is due one period after New.
NewRunner ==
    /\ call.pc = "new"
    /\ tickAt' = IF rate > 0 THEN qos(rate, res) ELSE tickAt
    /\ call' = [call EXCEPT
         !.pc = IF rate > 0 /\ qos(rate, res) <= 0 THEN "panic" ELSE "idle"]
    /\ UNCHANGED <<rate, res, c, now, launchLog, ncalls>>

\* Whether New has returned a Runner.
Constructed == call.pc \notin {"new", "panic"}

\* New, then the calls of Do and DoFor on the Runner it returned.
NextNew ==
    \/ NewRunner
    \/ Constructed /\ Next

SpecNew == InitNew /\ [][NextNew]_vars

\* ------------------------------------------------------------------ claims
Returned(k) == call.pc = "done" /\ call.kind = k

\* C1: a Do of src/throttle.go whose context is never cancelled has, when it
\* returns, launched the work unit exactly total times, and every one of
\* these invocations has completed.
C1_DoRunsTotal ==
    Returned("Do") /\ call.ctx = "live" =>
        call.launched = call.total /\ call.running = 0

C1_Witness ==
    /\ Returned("Do") /\ call.ctx = "live"
    /\ Throttled /\ call.total = MaxTotal /\ call.launched = MaxTotal

\* The launches in the window of length res that begins at time t.
WindowLaunches(t) ==
    LET Sum[u \in t..(t + res)] ==
            IF u >= t + res \/ u > MaxTime THEN 0 ELSE launchLog[u] + Sum[u + 1]
    IN Sum[t]

\* C2: with rate > 0, every time window of length res contains at most rate
\* launches of the work unit.
C2_Claim == Throttled => \A t \in Times : WindowLaunches(t) <= rate

\* C3: a DoFor of src/throttle.go with rate > 0 and d > 0, no cancellation and
\* work units that return promptly, has launched exactly floor(d / res) * rate
\* invocations when it returns (of the calls the model did not stop at its
\* bound MaxLaunch).
C3_Claim ==
    Returned("DoFor") /\ Throttled /\ call.d > 0
      /\ call.ctx = "live" /\ call.launched < MaxLaunch =>
        call.launched = (call.d \div res) * rate

\* C4: a Do or DoFor whose context is cancelled before the call begins
\* launches no invocation.
C4_Claim ==
    call.pc = "done" /\ call.ctx = "pre" => call.launched = 0

\* C5: when DoFor of src/throttle.go returns, on the deadline or on
\* cancellation, no invocation it launched is still running.
C5_DoForAwaits ==
    Returned("DoFor") => call.running = 0

C5_Witness ==
    Returned("DoFor") /\ call.via = "ctx" /\ call.launched > 0

\* C6: when Do of src/throttle.go returns because the context was cancelled,
\* no invocation it launched is still running.
C6_Claim ==
    Returned("Do") /\ call.via = "ctx" => call.running = 0

\* C7: once its deadline has fired or its context has been cancelled, a DoFor
\* call of src/throttle.go launches no further invocation: no step of that
\* call raises its count of launches.
C7_Claim ==
    [][call.kind = "DoFor" /\ (call.endFired \/ call.ctx # "live")
         /\ ncalls' = ncalls =>
           call'.launched = call.launched]_vars

\* The first invocation that returned an error, or 0 when none did.
FirstError(outs) ==
    IF \E k \in 1..Len(outs) : outs[k] # "nil"
      THEN CHOOSE k \in 1..Len(outs) :
             outs[k] # "nil" /\ \A j \in 1..(k - 1) : outs[j] = "nil"
      ELSE 0

\* C8: the sequential Do stops at the first error: if the k-th invocation is
\* the first to return an error, f has been invoked exactly k times and Do
\* returns that error; if none does, f has been invoked exactly total times
\* and Do returns nil.
C8_SeqDoFirstError ==
    Returned("SeqDo") =>
        LET k == FirstError(call.outs) IN
        IF k = 0
          THEN Len(call.outs) = call.total /\ call.result = "nil"
          ELSE Len(call.outs) = k /\ call.result = call.outs[k]

C8_Witness ==
    /\ Returned("SeqDo") /\ Throttled
    /\ call.total > Len(call.outs)
    /\ call.result = "e2"

\* C9: with a context that is never cancelled, the concurrent Do with errors
\* returns a non-nil error exactly when some invocation returned an error, and
\* the error it returns is one an invocation returned.
C9_ErrDoResult ==
    Returned("ErrDo") /\ call.ctx = "live" =>
        /\ (call.result # "nil") = (call.errs # {})
        /\ call.result # "nil" => call.result \in call.errs

C9_Witness ==
    /\ Returned("ErrDo") /\ call.ctx = "live"
    /\ call.result = "e2" /\ call.errs = {"e1", "e2"}

\* C10: once an invocation launched by the concurrent DoFor with errors has
\* returned an error, the call does not block forever and does not return nil:
\* either it has returned one of its invocations' errors, or a step of its
\* goroutines or of the timers is still possible.
C10_Claim ==
    call.kind = "ErrDoFor" /\ call.errs # {} =>
        \/ call.pc = "done" /\ call.result \in call.errs
        \/ call.pc # "done" /\ ENABLED ErrProgress

\* The invocations of a DoFor with errors that have returned nil: those that
\* have run their wg.Done(), less the one whose error DoFor received.
NilReturns ==
    call.launched - call.wg - (IF call.via = "error" THEN 1 ELSE 0)

\* C11: when every invocation of the work unit returns an error, the
\* concurrent DoFor with errors has made exactly one invocation when it
\* returns that error.
C11_Claim ==
    Returned("ErrDoFor") /\ call.via = "error"
      /\ call.running = 0 /\ NilReturns = 0 =>
        call.launched = 1

\* C12: a DoFor of src/throttle.go with d == 0 has returned as soon as it is
\* called, whatever the rate and the state of the context: it is never found
\* waiting for a tick or for anything else, and it has launched no invocation.
C12_DoForZero ==
    call.kind = "DoFor" /\ call.d = 0 =>
        call.pc = "done" /\ call.launched = 0 /\ call.running = 0

C12_Witness ==
    /\ Returned("DoFor") /\ call.d = 0 /\ call.via = "zero"
    /\ Throttled /\ c = 0 /\ call.ctx = "pre"

\* C13: the count-bounded DoFor of src/unnamed/part_000, with rate >= 0,
\* res > 0 and d > 0, has launched exactly floor(d / res) * rate invocations
\* when it returns, and all of them have completed.
C13_CntDoForTotal ==
    Returned("CntDoFor") /\ rate >= 0 /\ res > 0 /\ call.d > 0 =>
        call.launched = (call.d \div res) * rate /\ call.running = 0

C13_Witness ==
    /\ Returned("CntDoFor") /\ Throttled /\ call.d > res
    /\ call.launched >= 2

\* C14: New(rate, res) with rate > 0 and res <= 0 fails, observably (it
\* panics): it never returns a Runner, whose period would be zero or negative.
C14_NewRejects ==
    rate > 0 /\ res <= 0 /\ call.pc # "new" =>
        call.pc = "panic" /\ tickAt <= 0

C14_Witness ==
    rate > 0 /\ res < 0 /\ call.pc = "panic" /\ tickAt < 0

\* C15: for rate > 0 and res >= 0, the period qos(rate, res) that New hands
\* to the ticker is res divided by rate, truncated toward zero: the integer q
\* with q * rate <= res < (q + 1) * rate.
C15_QosTruncates ==
    call.pc # "new" /\ rate > 0 /\ res >= 0 =>
        tickAt * rate <= res /\ res < (tickAt + 1) * rate

C15_Witness ==
    /\ Constructed /\ rate > 1 /\ res > rate
    /\ res % rate # 0 /\ tickAt > 0

\* C20: for every rate > 0 and res > 0, the period qos(rate, res) that New
\* hands to the ticker is strictly positive, and New returns a Runner.
C20_Claim ==
    call.pc # "new" /\ rate > 0 /\ res > 0 =>
        tickAt > 0 /\ call.pc # "panic"

\* C16: after the concurrent Do with errors has returned an error, the
\* goroutines it leaves behind all finish: once every work unit has returned
\* and the joiner's wg.Wait() cannot return any more, no goroutine is blocked
\* in errors <- err and the joiner has ended.
C16_Claim ==
    Returned("ErrDo") /\ call.via = "error"
      /\ call.running = 0 /\ ~ENABLED ErrJoinerWait =>
        /\ \A e \in Errors : call.sending[e] = 0
        /\ call.joiner = "exited"

\* C19: after Do of src/throttle.go has returned and every work unit it
\* launched has returned, no goroutine of the call stays blocked: once the
\* joiner's wg.Wait() has returned, the joiner has ended, also when Do
\* returned through <-ctx.Done().
C19_Claim ==
    Returned("Do") /\ call.running = 0 /\ ~ENABLED JoinerWait =>
        call.joiner = "exited"

\* The launches of all calls since New, and the ticks the ticker has fired
\* since New: it fires at the multiples of its period, tickAt being the next.
TotalLaunches ==
    LET Sum[u \in 0..(MaxTime + 1)] ==
            IF u > MaxTime THEN 0 ELSE launchLog[u] + Sum[u + 1]
    IN Sum[0]
TicksFired == (tickAt \div qos(rate, res)) - 1

\* C17: on a Runner with rate > 0, shared by sequential and concurrent calls
\* of Do and DoFor, the launches of all the calls together never exceed the
\* ticks the ticker has fired since New.
C17_TickPerLaunch == Throttled => TotalLaunches <= TicksFired

C17_Witness ==
    /\ ncalls = 1 /\ call.launched >= 1
    /\ TotalLaunches > call.launched
    /\ TotalLaunches = TicksFired

\* C18: with a ticker that keeps firing, work units that return and fair
\* scheduling, every call of Do and of DoFor of src/throttle.go eventually
\* returns.
C18_Returns == Active ~> call.pc = "done"

C18_Witness ==
    /\ Returned("DoFor") /\ call.via = "deadline" /\ call.ctx = "live"
    /\ Throttled /\ call.launched = MaxLaunch /\ call.running = 0

====
